---- MODULE Spec2Model ----
(***************************************************************************)
(* A model of communitygraph: BipartiteCommunity (src/bipartite.py) and    *)
(* optimize_modularity (src/util.py).                                      *)
(*                                                                         *)
(* An edge list (the dataframe) is a sequence of rows <<user, item>>.      *)
(* A networkx Graph is a record [nodes, weight]: the node set and a        *)
(* function from undirected edges to weights; an undirected edge is the    *)
(* set of its end points ({a, b}, or {a} for a self loop), since a Graph   *)
(* keys its nodes by identifier alone and not by the column they came from.*)
(* Objects the program returns (projected graphs, partitions) live in      *)
(* heap; an object's identity is its index there.                          *)
(***************************************************************************)
EXTENDS Integers, Sequences, FiniteSets, TLC

VARIABLES df, strictProjection, insts, cache, heap, call, log,
          T, R, pc, i, j, bc, projected, data, used, iter

vars == <<df, strictProjection, insts, cache, heap, call, log,
          T, R, pc, i, j, bc, projected, data, used, iter>>

(* ------------------------------ bounds -------------------------------- *)

\* Longest edge list given to the constructor.
MaxRows == 3
\* Longest edge list of the instance whose methods are called.
CacheRows == 2
\* Longest edge list given to the grid search.
SearchRows == 2
\* Longest list of thresholds and longest list of resolutions of a search.
MaxGrid == 2
\* Number of method calls made on the instance in the cache exercise.
MaxCalls == 2

\* Identifiers of the two columns.  Python compares them by value, so an
\* identifier may occur in both columns.
UserIds == {1, 2}
ItemIds == {1, 2, 3}
\* The identifiers of the edge lists given to the grid search: one user, and
\* two items that are not users.
SearchUserIds == {1}
SearchItemIds == {2, 3}
\* Degree thresholds a caller passes (0 is an int like any other).
Thresholds == {0, 1, 2}
\* Resolutions a caller passes: n stands for the float n.0.
Resolutions == {1, 2}

(* ------------------------- program constants -------------------------- *)

\* min_item_degree: Optional[int] = 10
DefaultMinItemDegree == 10
\* resolution=1.0
DefaultResolution == 1

(* ------------------------- argument values ---------------------------- *)

\* An argument of a call: not passed, None, or an int.
Absent == <<0, 0>>
None == <<1, 0>>
IntArg(n) == <<2, n>>
IsInt(a) == a[1] = 2

\* Python truthiness of an Optional[int]: None and 0 are false.
Truthy(v) == IsInt(v) /\ v[2] # 0

\* The parameter's value: the default when the argument is not passed.
ParamValue(a, default) == IF a = Absent THEN default ELSE a

(* ----------------------------- dataframe ------------------------------ *)

Row == UserIds \X ItemIds

SeqsUpTo(S, n) == UNION {[1..m -> S] : m \in 0..n}

\* The values of a column (1: user_key, 2: item_key).
Column(d, col) == {d[n][col] : n \in 1..Len(d)}

\* df[col].value_counts()[k]
value_counts(d, col, k) == Cardinality({n \in 1..Len(d) : d[n][col] = k})

\* df.loc[df[col].isin(counts[counts >= t].index), :] with min_degree t
FilterByDegreeStrict(d, col, t) ==
    LET keep(row) == value_counts(d, col, row[col]) > t
    IN  SelectSeq(d, keep)

FilterByDegree(d, col, t) ==
    LET keep(row) == value_counts(d, col, row[col]) >= t
    IN  SelectSeq(d, keep)

\* Step 2 of __init__ once the settings are legal: elif ... elif ...
FilterDataframe(d, min_user_degree, min_item_degree) ==
    IF Truthy(min_user_degree) THEN FilterByDegree(d, 1, min_user_degree[2])
    ELSE IF Truthy(min_item_degree) THEN FilterByDegree(d, 2, min_item_degree[2])
    ELSE d

\* if min_user_degree and min_item_degree: raise Exception(...)
IllegalSettings(min_user_degree, min_item_degree) ==
    Truthy(min_user_degree) /\ Truthy(min_item_degree)

\* A mutant of Counter: the number of distinct partners, not of rows.
CounterDistinct(d, col) ==
    [k \in Column(d, col) |->
        Cardinality({d[n][3 - col] : n \in {m \in 1..Len(d) : d[m][col] = k}})]

\* Counter(df[col])
Counter(d, col) == [k \in Column(d, col) |-> value_counts(d, col, k)]

(* ------------------------------- graph -------------------------------- *)

EmptyWeight == [e \in {} |-> 0]

\* G.add_edge(u, v, weight=w): a later weight replaces an earlier one.
add_edge(G, u, v, w) ==
    [nodes |-> G.nodes \cup {u, v},
     weight |-> [e \in DOMAIN G.weight \cup {{u, v}} |->
                    IF e = {u, v} THEN w ELSE G.weight[e]]]

\* Counter(list(zip(users, items))).items(): the distinct pairs in the order of
\* their first occurrence, each with its number of occurrences.
RECURSIVE EdgeListFrom(_, _)
EdgeListFrom(d, n) ==
    IF n > Len(d) THEN <<>>
    ELSE (IF \E m \in 1..(n - 1) : d[m] = d[n] THEN <<>>
          ELSE << <<d[n][1], d[n][2],
                    Cardinality({m \in 1..Len(d) : d[m] = d[n]})>> >>)
         \o EdgeListFrom(d, n + 1)

edge_list(d) == EdgeListFrom(d, 1)

RECURSIVE add_weighted_edges_from(_, _)
add_weighted_edges_from(G, es) ==
    IF es = <<>> THEN G
    ELSE add_weighted_edges_from(add_edge(G, es[1][1], es[1][2], es[1][3]), Tail(es))

\* Steps 3 and 4 of __init__ on the filtered dataframe d.
BuildInstance(d, args) ==
    LET user_degree == Counter(d, 1)
        item_degree == Counter(d, 2)
        nodes == DOMAIN user_degree \cup DOMAIN item_degree
    IN  [df |-> d,
         user_degree |-> user_degree,
         item_degree |-> item_degree,
         G |-> add_weighted_edges_from([nodes |-> nodes, weight |-> EmptyWeight],
                                       edge_list(d)),
         args |-> args]

\* BipartiteCommunity(df, user_key, item_key, min_user_degree, min_item_degree):
\* the exception raised, or the instance.
NewBipartiteCommunity(d, muArg, miArg) ==
    LET mu == ParamValue(muArg, None)
        mi == ParamValue(miArg, IntArg(DefaultMinItemDegree))
    IN  IF IllegalSettings(mu, mi)
        THEN [raised |-> "Exception", obj |-> <<>>]
        ELSE [raised |-> "none",
              obj |-> BuildInstance(FilterDataframe(d, mu, mi), <<muArg, miArg>>)]

Sum(f) ==
    LET RECURSIVE S(_)
        S(D) == IF D = {} THEN 0
                ELSE LET x == CHOOSE y \in D : TRUE IN f[x] + S(D \ {x})
    IN  S(DOMAIN f)

\* describe_bipartite: its two assertions and its divisions, in order.
DescribeOutcome(b) ==
    IF Cardinality(DOMAIN b.user_degree) + Cardinality(DOMAIN b.item_degree)
          # Cardinality(b.G.nodes)
    THEN "AssertionError"
    ELSE IF Cardinality(DOMAIN b.user_degree) = 0 \/ Cardinality(DOMAIN b.item_degree) = 0
    THEN "ZeroDivisionError"
    ELSE IF Sum(b.user_degree) # Sum(b.item_degree)
    THEN "AssertionError"
    ELSE IF Cardinality(DOMAIN b.G.weight) = 0
    THEN "ZeroDivisionError"
    ELSE "none"

(* --------------------------- construction ----------------------------- *)

ArgValues == {Absent, None} \cup {IntArg(t) : t \in Thresholds}

NoCall == [op |-> "none", mu |-> Absent, mi |-> Absent, raised |-> "none", self |-> 0]

InitCommon ==
    /\ insts = <<>>
    /\ cache = <<>>
    /\ heap = <<>>
    /\ call = NoCall
    /\ log = <<>>
    /\ T = <<>>
    /\ R = <<>>
    /\ pc = "idle"
    /\ i = 0
    /\ j = 0
    /\ bc = 0
    /\ projected = 0
    /\ data = <<>>
    /\ used = <<>>
    /\ iter = 0

InitBuild ==
    /\ df \in SeqsUpTo(Row, MaxRows)
    /\ strictProjection = FALSE
    /\ InitCommon

\* A caller constructs a BipartiteCommunity from df.
Construct(muArg, miArg) ==
    /\ call.op = "none"
    /\ LET r == NewBipartiteCommunity(df, muArg, miArg)
       IN  /\ insts' = IF r.raised = "none" THEN Append(insts, r.obj) ELSE insts
           /\ call' = [op |-> "init", mu |-> muArg, mi |-> miArg, raised |-> r.raised,
                       self |-> IF r.raised = "none" THEN Len(insts) + 1 ELSE 0]
    /\ UNCHANGED <<df, strictProjection, cache, heap, log,
                   T, R, pc, i, j, bc, projected, data, used, iter>>

\* A caller calls describe_bipartite on the instance it built.
Describe ==
    /\ call.op = "init"
    /\ call.raised = "none"
    /\ call' = [call EXCEPT !.op = "describe",
                            !.raised = DescribeOutcome(insts[call.self])]
    /\ UNCHANGED <<df, strictProjection, insts, cache, heap, log,
                   T, R, pc, i, j, bc, projected, data, used, iter>>

NextBuild ==
    \/ \E muArg \in ArgValues, miArg \in ArgValues : Construct(muArg, miArg)
    \/ Describe

SpecBuild == InitBuild /\ [][NextBuild]_vars

(* ------------------- claims about the constructor --------------------- *)

\* The instance the constructor call returned (when it returned one).
Built == insts[call.self]
Returned == call.op # "none" /\ call.self # 0
\* A threshold the caller supplied: an int, as opposed to None or nothing.
Supplied(a) == IsInt(a)

\* C1: a constructor call in which both min_user_degree and min_item_degree
\* are supplied raises, and no instance exists afterwards.
C1_BothSuppliedRaises ==
    (call.op # "none" /\ Supplied(call.mu) /\ Supplied(call.mi))
        => (call.raised = "Exception" /\ call.self = 0 /\ insts = <<>>)

\* C4: in every built instance the graph has as many nodes as there are
\* distinct users plus distinct items in the filtered edge list.
C4_NodeCount ==
    \A n \in 1..Len(insts) :
        Cardinality(DOMAIN insts[n].user_degree)
            + Cardinality(DOMAIN insts[n].item_degree)
        = Cardinality(insts[n].G.nodes)

\* C5: in every built instance, a (user, item) pair occurring k >= 1 times in
\* the filtered edge list is an edge of weight k between that user and that
\* item, and a pair of a user and an item of that list that does not occur in
\* it is not an edge.
C5_WeightIsMultiplicity ==
    \A n \in 1..Len(insts) :
      \A u \in DOMAIN insts[n].user_degree, it \in DOMAIN insts[n].item_degree :
        LET d == insts[n].df
            k == Cardinality({m \in 1..Len(d) : d[m] = <<u, it>>})
            w == insts[n].G.weight
        IN  IF k >= 1 THEN {u, it} \in DOMAIN w /\ w[{u, it}] = k
            ELSE {u, it} \notin DOMAIN w

\* The positions of the rows of d whose item occurs at least t times in d.
RowsMeeting(d, t) ==
    {n \in 1..Len(d) : Cardinality({m \in 1..Len(d) : d[m][2] = d[n][2]}) >= t}
\* f is d restricted to the positions K, in order.
IsRestriction(f, d, K) ==
    /\ Len(f) = Cardinality(K)
    /\ \A k \in 1..Len(f) :
          f[k] = d[CHOOSE n \in K : Cardinality({m \in K : m < n}) = k - 1]

\* C6: built with min_item_degree = t >= 1 and no user threshold, the instance
\* holds exactly the rows of the input whose item occurs at least t times in
\* the unfiltered input, in their order.
C6_SinglePassItemFilter ==
    (Returned /\ ~Supplied(call.mu) /\ Supplied(call.mi) /\ call.mi[2] >= 1)
        => IsRestriction(Built.df, df, RowsMeeting(df, call.mi[2]))

\* C6 witness: such a build kept some rows and dropped others.
C6_Witness ==
    /\ Returned /\ ~Supplied(call.mu) /\ call.mi = IntArg(2)
    /\ Len(Built.df) > 0
    /\ Len(Built.df) < Len(df)

\* C7: the constructor raises only when both thresholds are supplied; with
\* min_user_degree alone (min_item_degree not passed) it filters on users only;
\* with neither it keeps every row.
C7_FailsOnlyWithBoth ==
    /\ (call.raised = "Exception" => (Supplied(call.mu) /\ Supplied(call.mi)))
    /\ (call.op # "none" /\ Supplied(call.mu) /\ call.mi = Absent)
          => (call.self # 0
              /\ \A n \in 1..Len(df) :
                    (\E m \in 1..Len(Built.df) : Built.df[m] = df[n])
                    <=> Cardinality({m \in 1..Len(df) : df[m][1] = df[n][1]})
                            >= call.mu[2])
    /\ (call.op # "none" /\ call.mu = Absent /\ call.mi = Absent)
          => (call.self # 0 /\ Built.df = df)

\* C8: in every built instance the user degrees and the item degrees both sum
\* to the number of rows of the filtered edge list.
C8_DegreeSums ==
    \A n \in 1..Len(insts) :
        /\ Sum(insts[n].user_degree) = Len(insts[n].df)
        /\ Sum(insts[n].item_degree) = Len(insts[n].df)

\* C8 witness: a built instance with a repeated row and a filtered-out row.
C8_Witness ==
    /\ Returned
    /\ Len(Built.df) >= 2
    /\ Len(Built.df) < Len(df)
    /\ \E m, n \in 1..Len(Built.df) : m # n /\ Built.df[m] = Built.df[n]

(* ---------------------- projection and partition ---------------------- *)

Neighbors(G, u) == {v \in G.nodes : {u, v} \in DOMAIN G.weight}

\* networkx bipartite.weighted_projected_graph(B, nodes): the nodes given, and
\* an edge from each of them to every other node two steps away, weighted by
\* the number of common neighbours.
weighted_projected_graph(B, nodes) ==
    LET nbrs2(u) == UNION {Neighbors(B, nbr) : nbr \in Neighbors(B, u)} \ {u}
        edges == UNION {{{u, v} : v \in nbrs2(u)} : u \in nodes}
    IN  [nodes |-> nodes \cup UNION edges,
         weight |-> [e \in edges |->
                        LET u == CHOOSE x \in e : TRUE
                            v == CHOOSE y \in e : y # u
                        IN  Cardinality(Neighbors(B, u) \cap Neighbors(B, v))]]

\* n_top = len(B) - len(nodes); a networkx that validates the node set raises
\* NetworkXAlgorithmError when n_top < 1, an older one does not look at it.
ProjectionRaises(strict, B, nodes) ==
    strict /\ Cardinality(B.nodes) - Cardinality(nodes) < 1

\* community_louvain.best_partition(graph, weight="weight", resolution=...): the
\* partitions a run may return.  Without edges every node is its own community
\* (generate_dendrogram's special case).  Otherwise which grouping comes out
\* depends on the random move order, so every grouping is possible.  Community
\* ids are dense from 0; their values carry no information, and the model
\* numbers the communities in the order of their smallest node.
Numbered(graph, p) ==
    \A a \in graph.nodes :
        /\ \A c \in 0..(p[a] - 1) : \E b \in graph.nodes : b < a /\ p[b] = c
        /\ (p[a] > 0 /\ \A b \in graph.nodes : b < a => p[b] # p[a])
              => \A b \in graph.nodes : b < a => p[b] < p[a]

best_partition(graph) ==
    LET n == Cardinality(graph.nodes)
        all == {p \in [graph.nodes -> 0..(n - 1)] : Numbered(graph, p)}
    IN  IF DOMAIN graph.weight = {}
        THEN {p \in all : \A a, b \in graph.nodes : a # b => p[a] # p[b]}
        ELSE all

\* graph.size(weight="weight")
links(graph) == Sum(graph.weight)

\* community_louvain.modularity(partition, graph) raises ValueError("A graph
\* without link has an undefined modularity") when links == 0.
ModularityRaises(graph) == links(graph) = 0

\* community_louvain.modularity(partition, graph) when links > 0: the sum over
\* the communities of inc/links - (deg/(2*links))^2, kept as the exact fraction
\* <<numerator, denominator>> over the denominator 4*links^2.
modularity(partition, graph) ==
    LET m == links(graph)
        coms == {partition[a] : a \in graph.nodes}
        wdeg(a) == Sum([e \in {x \in DOMAIN graph.weight : a \in x} |-> graph.weight[e]])
        deg(c) == Sum([a \in {x \in graph.nodes : partition[x] = c} |-> wdeg(a)])
        inc(c) == Sum([e \in {x \in DOMAIN graph.weight :
                                \A a \in x : partition[a] = c} |-> graph.weight[e]])
    IN  <<Sum([c \in coms |-> 4 * m * inc(c) - deg(c) * deg(c)]), 4 * m * m>>

(* ------------------------- functools.cache ---------------------------- *)

\* How a call passes resolution: not at all, by position, or by keyword.
Omitted == "omitted"
Positional == "positional"
Keyword == "keyword"

\* A mutant of MakeKey: the key forgets the instance.
MakeKeyWithoutSelf(method, self, style, res) ==
    <<method, 0, style, IF style = Omitted THEN 0 ELSE res>>

\* The key @cache makes of a call: the positional arguments (self first) and
\* then the keyword arguments as passed; a default that is not passed is not in
\* the key.  Each decorated method has a cache of its own.
MakeKey(method, self, style, res) ==
    <<method, self, style, IF style = Omitted THEN 0 ELSE res>>

Hit(c, h, key) == [cache |-> c, heap |-> h, raised |-> "none", ret |-> c[key]]
Raise(c, h, e) == [cache |-> c, heap |-> h, raised |-> e, ret |-> 0]
Store(c, h, key, obj) ==
    [cache |-> c @@ (key :> (Len(h) + 1)), heap |-> Append(h, obj),
     raised |-> "none", ret |-> Len(h) + 1]

\* self.project_onto_items() / self.project_onto_users() on instance self of
\* ins, with the cache c and the heap h: the cache and heap after, what was
\* raised, and the object returned.
project(c, h, strict, ins, method, self) ==
    LET key == MakeKey(method, self, Omitted, 0)
        col == IF method = "project_onto_items" THEN 2 ELSE 1
        nodes == Column(ins[self].df, col)
    IN  IF key \in DOMAIN c THEN Hit(c, h, key)
        ELSE IF ProjectionRaises(strict, ins[self].G, nodes)
        THEN Raise(c, h, "NetworkXAlgorithmError")
        ELSE Store(c, h, key,
                   [method |-> method, owner |-> self, res |-> 0, on |-> 0,
                    value |-> weighted_projected_graph(ins[self].G, nodes)])

\* self.partition_items(...) / self.partition_users(...): the outcomes a call
\* may have, one per partition the clustering may return.
partition(c, h, strict, ins, method, self, style, resArg) ==
    LET key == MakeKey(method, self, style, resArg)
        res == IF style = Omitted THEN DefaultResolution ELSE resArg
        pm == IF method = "partition_items" THEN "project_onto_items"
              ELSE "project_onto_users"
        p == project(c, h, strict, ins, pm, self)
    IN  IF key \in DOMAIN c THEN {Hit(c, h, key)}
        ELSE IF p.raised # "none" THEN {p}
        ELSE {Store(p.cache, p.heap, key,
                    [method |-> method, owner |-> self, res |-> res, on |-> p.ret,
                     value |-> part]) :
                part \in best_partition(p.heap[p.ret].value)}

(* --------------------- calls on a built instance ---------------------- *)

InitCache ==
    /\ df \in SeqsUpTo(Row, CacheRows)
    /\ strictProjection \in BOOLEAN
    /\ insts = <<NewBipartiteCommunity(df, Absent, None).obj>>
    /\ cache = <<>>
    /\ heap = <<>>
    /\ call = [op |-> "init", mu |-> Absent, mi |-> None, raised |-> "none", self |-> 1]
    /\ log = <<>>
    /\ T = <<>>
    /\ R = <<>>
    /\ pc = "idle"
    /\ i = 0
    /\ j = 0
    /\ bc = 0
    /\ projected = 0
    /\ data = <<>>
    /\ used = <<>>
    /\ iter = 0

\* A call's outcome o takes effect and is logged with the resolution in force.
Called(method, res, o) ==
    /\ cache' = o.cache
    /\ heap' = o.heap
    /\ log' = Append(log, [method |-> method, res |-> res,
                           raised |-> o.raised, ret |-> o.ret])
    /\ UNCHANGED <<df, strictProjection, insts, call,
                   T, R, pc, i, j, bc, projected, data, used, iter>>

project_onto_items ==
    /\ Len(log) < MaxCalls
    /\ Called("project_onto_items", 0,
              project(cache, heap, strictProjection, insts, "project_onto_items", 1))

project_onto_users ==
    /\ Len(log) < MaxCalls
    /\ Called("project_onto_users", 0,
              project(cache, heap, strictProjection, insts, "project_onto_users", 1))

partition_items(style, resArg) ==
    /\ Len(log) < MaxCalls
    /\ \E o \in partition(cache, heap, strictProjection, insts,
                          "partition_items", 1, style, resArg) :
          Called("partition_items",
                 IF style = Omitted THEN DefaultResolution ELSE resArg, o)

partition_users(style, resArg) ==
    /\ Len(log) < MaxCalls
    /\ \E o \in partition(cache, heap, strictProjection, insts,
                          "partition_users", 1, style, resArg) :
          Called("partition_users",
                 IF style = Omitted THEN DefaultResolution ELSE resArg, o)

\* The calls a caller can write: resolution omitted, or passed either way.
CallShapes == {<<Omitted, DefaultResolution>>}
                 \cup ({Positional, Keyword} \X Resolutions)

NextCache ==
    \/ project_onto_items
    \/ project_onto_users
    \/ \E s \in CallShapes : partition_items(s[1], s[2])
    \/ \E s \in CallShapes : partition_users(s[1], s[2])

SpecCache == InitCache /\ [][NextCache]_vars

\* C3: on one instance, calls of the same method with equal resolution values
\* (the default 1.0 included, however the argument is passed) all return the
\* object the first of them returned, and no projection or partition is
\* computed twice for the same resolution.
C3_ComputedOnce ==
    /\ \A a, b \in 1..Len(log) :
          (/\ log[a].method = log[b].method
           /\ log[a].res = log[b].res
           /\ log[a].raised = "none"
           /\ log[b].raised = "none") => log[a].ret = log[b].ret
    /\ \A a, b \in 1..Len(heap) :
          (/\ heap[a].method = heap[b].method
           /\ heap[a].owner = heap[b].owner
           /\ heap[a].res = heap[b].res) => a = b

(* ------------------------ optimize_modularity ------------------------- *)

\* optimize_modularity(df, user_key, item_key, min_item_degree=T, resolution=R)
\* is called: data = {}, iter = 1, and control is at the outer loop.
InitSearch ==
    /\ df \in SeqsUpTo(SearchUserIds \X SearchItemIds, SearchRows)
    /\ strictProjection \in BOOLEAN
    /\ T \in SeqsUpTo(Thresholds, MaxGrid)
    /\ R \in SeqsUpTo(Resolutions, MaxGrid)
    /\ insts = <<>>
    /\ cache = <<>>
    /\ heap = <<>>
    /\ call = NoCall
    /\ log = <<>>
    /\ pc = "outer"
    /\ i = 1
    /\ j = 1
    /\ bc = 0
    /\ projected = 0
    /\ data = <<>>
    /\ used = <<>>
    /\ iter = 1

\* A mutant of MoreResolutions: the inner loop stops after its first pass.
MoreResolutionsOnce(n, seq) == n <= Len(seq) /\ n <= 1

\* for res in resolution: whether the inner loop has a next element.
MoreResolutions(n, seq) == n <= Len(seq)

\* for min_deg in min_item_degree: build bc with that item filter and project it.
OuterIteration ==
    /\ pc = "outer"
    /\ i <= Len(T)
    /\ LET new == NewBipartiteCommunity(df, Absent, IntArg(T[i]))
           ins == Append(insts, new.obj)
           self == Len(insts) + 1
           p == project(cache, heap, strictProjection, ins, "project_onto_items", self)
       IN  /\ insts' = ins
           /\ bc' = self
           /\ cache' = p.cache
           /\ heap' = p.heap
           /\ projected' = p.ret
           /\ pc' = IF p.raised = "none" THEN "inner" ELSE p.raised
    /\ j' = 1
    /\ UNCHANGED <<df, strictProjection, call, log, T, R, i, data, used, iter>>

\* One pass of the inner loop: partition, score, record, count.
InnerIteration ==
    /\ pc = "inner"
    /\ MoreResolutions(j, R)
    /\ \E o \in partition(cache, heap, strictProjection, insts,
                          "partition_items", bc, Keyword, R[j]) :
          /\ cache' = o.cache
          /\ heap' = o.heap
          /\ IF o.raised # "none"
             THEN pc' = o.raised /\ UNCHANGED <<data, used, iter, j>>
             ELSE IF ModularityRaises(heap[projected].value)
             THEN pc' = "ValueError" /\ UNCHANGED <<data, used, iter, j>>
             ELSE /\ data' = [k \in DOMAIN data \cup {<<T[i], R[j]>>} |->
                                IF k = <<T[i], R[j]>>
                                THEN modularity(o.heap[o.ret].value, heap[projected].value)
                                ELSE data[k]]
                  /\ used' = [k \in DOMAIN used \cup {<<T[i], R[j]>>} |->
                                IF k = <<T[i], R[j]>>
                                THEN [bc |-> bc, partition |-> o.ret,
                                      projected |-> projected, at |-> <<i, j>>]
                                ELSE used[k]]
                  /\ iter' = iter + 1
                  /\ j' = j + 1
                  /\ pc' = "inner"
    /\ UNCHANGED <<df, strictProjection, insts, call, log, T, R, i, bc, projected>>

\* The inner loop is exhausted: on to the next threshold.
InnerExhausted ==
    /\ pc = "inner"
    /\ ~MoreResolutions(j, R)
    /\ i' = i + 1
    /\ pc' = "outer"
    /\ UNCHANGED <<df, strictProjection, insts, cache, heap, call, log,
                   T, R, j, bc, projected, data, used, iter>>

\* The outer loop is exhausted: return data.
Return ==
    /\ pc = "outer"
    /\ i > Len(T)
    /\ pc' = "done"
    /\ UNCHANGED <<df, strictProjection, insts, cache, heap, call, log,
                   T, R, i, j, bc, projected, data, used, iter>>

NextSearch ==
    \/ OuterIteration
    \/ InnerIteration
    \/ InnerExhausted
    \/ Return

SpecSearch == InitSearch /\ [][NextSearch]_vars
(* --------------------- claims about the search ------------------------ *)

\* The keys a returned mapping should hold: one per pair of values of T and R.
GridKeys == {<<T[a], R[b]>> : a \in 1..Len(T), b \in 1..Len(R)}

\* C2 as stated: the returned mapping has exactly |T| x |R| entries, one for
\* each position pair, and every pair was evaluated before the return.
C2_GridComplete ==
    pc = "done" => (/\ Cardinality(DOMAIN data) = Len(T) * Len(R)
                    /\ DOMAIN data = GridKeys
                    /\ iter - 1 = Len(T) * Len(R))

\* C2 amended: when the search returns, the mapping's keys are exactly the
\* distinct (threshold, resolution) value pairs of the grid, and every position
\* pair was evaluated before the return.
C2_GridCompleteByValue ==
    pc = "done" => (/\ DOMAIN data = GridKeys
                    /\ DOMAIN used = GridKeys
                    /\ iter - 1 = Len(T) * Len(R)
                    /\ \A k \in DOMAIN used :
                          \A a \in 1..Len(T), b \in 1..Len(R) :
                             <<T[a], R[b]>> = k =>
                                (a < used[k].at[1]
                                 \/ (a = used[k].at[1] /\ b <= used[k].at[2])))

\* C2 witness: a search over a 2 x 2 grid returned four entries.
C2_Witness ==
    /\ pc = "done"
    /\ Len(T) = 2
    /\ Len(R) = 2
    /\ Cardinality(DOMAIN data) = 4

\* The item projection of instance b has no edge.
EdgelessProjection(b) ==
    DOMAIN weighted_projected_graph(b.G, Column(b.df, 2)).weight = {}

\* C9: a grid point whose graph is empty, or whose projection has no edge,
\* raises nothing once its projection is there: it is partitioned into
\* singletons, the search goes on and records its score.
C9_DegenerateRaisesNothing ==
    (bc # 0 /\ projected # 0 /\ EdgelessProjection(insts[bc]))
        => pc # "ValueError"

\* C10: the score stored under (t, r) is the modularity of the partition that
\* the instance built for t in that iteration computed at resolution r on its
\* own projection, scored against that projection; no object owned by
\* another instance is involved.
C10_NoSharingAcrossInstances ==
    \A k \in DOMAIN data :
        LET u == used[k]
            part == heap[u.partition]
            proj == heap[u.projected]
            b == insts[u.bc]
        IN  /\ u.bc = u.at[1]
            /\ T[u.at[1]] = k[1]
            /\ R[u.at[2]] = k[2]
            /\ b.args = <<Absent, IntArg(k[1])>>
            /\ proj.method = "project_onto_items"
            /\ proj.owner = u.bc
            /\ part.method = "partition_items"
            /\ part.owner = u.bc
            /\ part.res = k[2]
            /\ part.on = u.projected
            /\ data[k] = modularity(part.value, proj.value)

\* C10 witness: two instances were each scored at the same resolution.
C10_Witness ==
    \E k1, k2 \in DOMAIN data :
        /\ k1[1] # k2[1]
        /\ k1[2] = k2[2]
        /\ used[k1].bc # used[k2].bc

====
